---- MODULE Spec2Model ----
(***************************************************************************)
(* The store orchestrator service (orchestrator/app): Job Intake           *)
(* (POST /orchestrate), the provisioning driver _run_orchestration, the    *)
(* callback notifier, the command runner, the readiness prober and the     *)
(* platform adapters, as one state machine.                                *)
(*                                                                         *)
(* Python values:                                                          *)
(*   Optional[T]   a sequence of length <= 1: None is << >>, v is <<v>>    *)
(*   text that is searched for a substring (diagnostics, pod lines):       *)
(*                 a sequence of one-character strings                     *)
(*   other str     a TLA+ string (only compared for equality)              *)
(*   a call that may raise: a record [ok |-> TRUE, value |-> v] or         *)
(*                 [ok |-> FALSE, exc |-> type, text |-> str(e)]           *)
(***************************************************************************)
EXTENDS Integers, Sequences, FiniteSets, TLC

VARIABLES
    MOCK_MODE,      \* settings.orch_mock, fixed at import time
    POLL_ATTEMPTS,  \* settings.orch_poll_attempts, fixed at import time
    jobs,           \* the background tasks, one record per accepted request
    log,            \* the HTTP exchanges of POST /orchestrate, in order
    running,        \* the task that occupies the event loop (0: the loop is free)
    call            \* the library call under examination (None: the service runs)

vars == <<MOCK_MODE, POLL_ATTEMPTS, jobs, log, running, call>>

---------------------------------------------------------------------------
(* Bounds of the model *)

MaxJobs == 2
MaxRequests == 2
MaxPollAttempts == 2
MaxPodLines == 2

---------------------------------------------------------------------------
(* Python values *)

None == << >>
Some(v) == <<v>>

\* bool(s) of an Optional[str] whose str is a TLA+ string
TruthyStr(o) == o # None /\ o[1] # ""

\* bool(s) of an Optional[str] whose str is a character sequence
TruthyText(o) == o # None /\ o[1] # << >>

\* sub in text
Contains(sub, text) ==
    \E k \in 0..(Len(text) - Len(sub)) : SubSeq(text, k + 1, k + Len(sub)) = sub

Ok(v) == [ok |-> TRUE, value |-> v]
Raise(type, text) == [ok |-> FALSE, exc |-> type, text |-> text]

---------------------------------------------------------------------------
(* Text literals of the program *)

NOT_INSTALLED ==
    <<"n", "o", "t", " ", "i", "n", "s", "t", "a", "l", "l", "e", "d">>
TIMED_OUT ==
    <<"P", "l", "a", "t", "f", "o", "r", "m", " ", "c", "o", "n", "f", "i", "g",
      "u", "r", "a", "t", "i", "o", "n", " ", "t", "i", "m", "e", "d", " ", "o",
      "u", "t">>
POD_NOT_FOUND ==
    <<"W", "o", "r", "d", "P", "r", "e", "s", "s", " ", "p", "o", "d", " ", "n",
      "o", "t", " ", "f", "o", "u", "n", "d">>
CORE_NOT_INSTALLED ==
    <<"W", "o", "r", "d", "P", "r", "e", "s", "s", " ", "c", "o", "r", "e", " ",
      "n", "o", "t", " ", "i", "n", "s", "t", "a", "l", "l", "e", "d">>
WOO_FAILED ==
    <<"F", "a", "i", "l", "e", "d", " ", "t", "o", " ", "i", "n", "s", "t", "a",
      "l", "l", "/", "a", "c", "t", "i", "v", "a", "t", "e", " ", "W", "o", "o",
      "C", "o", "m", "m", "e", "r", "c", "e">>
PRODUCT_FAILED ==
    <<"F", "a", "i", "l", "e", "d", " ", "t", "o", " ", "c", "r", "e", "a", "t",
      "e", " ", "t", "e", "s", "t", " ", "p", "r", "o", "d", "u", "c", "t">>
COD_FAILED ==
    <<"F", "a", "i", "l", "e", "d", " ", "t", "o", " ", "e", "n", "a", "b", "l",
      "e", " ", "C", "O", "D", " ", "p", "a", "y", "m", "e", "n", "t">>
MEDUSA_NOT_IMPLEMENTED ==
    <<"M", "e", "d", "u", "s", "a", " ", "a", "d", "a", "p", "t", "e", "r", " ",
      "n", "o", "t", " ", "y", "e", "t", " ", "i", "m", "p", "l", "e", "m", "e",
      "n", "t", "e", "d">>
WOO_READY == <<"w", "o", "o", "-", "r", "e", "a", "d", "y">>
RUNNING == <<"R", "u", "n", "n", "i", "n", "g">>
ONE_OF_ONE == <<"1", "/", "1">>

---------------------------------------------------------------------------
(* Settings *)

ORCHESTRATOR_TOKEN == "s3cret"
POLL_INTERVAL == 10

---------------------------------------------------------------------------
(* Requests (schemas.py) *)

\* engine declared as a plain str in the request schema: any name passes the
\* validation of the body.
StoreEngine_any_str == {"woocommerce", "medusa", "shopify"}

StoreEngine == {"woocommerce", "medusa"}

\* The job fields of a request body, as the backend derives them from the
\* store's name.  creator_id is optional and unused by the orchestrator.
OrchestrateRequest(store_id, name, engine) ==
    [store_id  |-> store_id,
     name      |-> name,
     engine    |-> engine,
     namespace |-> name,
     host      |-> name \o ".localhost",
     base_url  |-> "http://" \o name \o ".localhost",
     store_url |-> "http://" \o name \o ".localhost"
                     \o (IF engine = "woocommerce" THEN "/shop/" ELSE "/")]

\* The request bodies the model submits; the last one names an engine that is
\* not in the Literal of the schema.
Requests ==
    {OrchestrateRequest("s1", "a", "woocommerce"),
     OrchestrateRequest("s2", "b", "woocommerce"),
     OrchestrateRequest("s3", "c", "medusa"),
     OrchestrateRequest("s4", "d", "shopify")}

\* Values of a token header: absent, empty, the secret, another token.
HeaderValues == {None, Some(""), Some(ORCHESTRATOR_TOKEN), Some("wrong")}

StatusPayload(status, url, error, password) ==
    [status |-> status, url |-> url, error |-> error, password |-> password]

\* payload.dict(): the fields that are None stay in the body, as null
include_none(payload) == payload

\* payload.dict(exclude_none=True)
exclude_none(payload) ==
    [k \in {"status"} \cup {f \in {"url", "error", "password"} : payload[f] # None}
        |-> IF k = "status" THEN payload[k] ELSE payload[k][1]]

---------------------------------------------------------------------------
(* Platform adapters (adapters/) *)

UNSUPPORTED_ENGINE ==
    <<"U", "n", "s", "u", "p", "p", "o", "r", "t", "e", "d", " ", "s", "t", "o",
      "r", "e", " ", "e", "n", "g", "i", "n", "e">>

adapters ==
    [e \in {"woocommerce", "medusa"} |->
        IF e = "woocommerce" THEN "WooCommerceAdapter" ELSE "MedusaAdapter"]

\* get_store_adapter that falls back to the WooCommerce adapter for an engine
\* it has no entry for.
get_store_adapter_fallback(engine) ==
    IF engine \in DOMAIN adapters
        THEN Ok(adapters[engine])
        ELSE Ok("WooCommerceAdapter")

get_store_adapter(engine) ==
    IF engine \in DOMAIN adapters
        THEN Ok(adapters[engine])
        ELSE Raise("ValueError", UNSUPPORTED_ENGINE)

WooCommerce_get_default_values(store_name, host) ==
    [store     |-> [name |-> store_name, engine |-> "wordpress", host |-> host],
     wordpress |-> [enabled |-> TRUE, wordpressBlogName |-> store_name,
                    wordpressPlugins |-> "woocommerce"],
     ingress   |-> [enabled |-> TRUE, className |-> "nginx"]]

\* get_default_values over a Medusa adapter that produces values as the
\* WooCommerce adapter does
get_default_values_medusa_too(adapter, store_name, host) ==
    Ok(WooCommerce_get_default_values(store_name, host))

get_default_values(adapter, store_name, host) ==
    IF adapter = "WooCommerceAdapter"
        THEN Ok(WooCommerce_get_default_values(store_name, host))
        ELSE Raise("NotImplementedError", MEDUSA_NOT_IMPLEMENTED)

\* What the five kubectl steps of the WooCommerce configuration report for a
\* namespace: the pod name found (or None) and whether each wp-cli script
\* exited zero.
WooWorlds ==
    [pod : {None, Some("wp-0")}, core : BOOLEAN, woo : BOOLEAN,
     product : BOOLEAN, cod : BOOLEAN]

\* WooCommerce_configure_platform that installs the plugin before it checks
\* that the core is installed
WooCommerce_configure_platform_plugin_first(namespace, release_name, w) ==
    IF w.pod = None THEN <<FALSE, Some(POD_NOT_FOUND)>>
    ELSE IF ~w.woo THEN <<FALSE, Some(WOO_FAILED)>>
    ELSE IF ~w.core THEN <<FALSE, Some(CORE_NOT_INSTALLED)>>
    ELSE IF ~w.product THEN <<FALSE, Some(PRODUCT_FAILED)>>
    ELSE IF ~w.cod THEN <<FALSE, Some(COD_FAILED)>>
    ELSE <<TRUE, None>>

\* The helper methods configure_platform calls, in the order of the calls
WooCommerce_configure_platform_calls(namespace, release_name, w) ==
    <<"_get_wordpress_pod">> \o
    (IF w.pod = None THEN << >> ELSE <<"_is_wordpress_ready">> \o
    (IF ~w.core THEN << >> ELSE <<"_install_woocommerce">> \o
    (IF ~w.woo THEN << >> ELSE <<"_create_test_product">> \o
    (IF ~w.product THEN << >> ELSE <<"_enable_cod_payment">>))))

WooCommerce_configure_platform(namespace, release_name, w) ==
    IF w.pod = None THEN <<FALSE, Some(POD_NOT_FOUND)>>
    ELSE IF ~w.core THEN <<FALSE, Some(CORE_NOT_INSTALLED)>>
    ELSE IF ~w.woo THEN <<FALSE, Some(WOO_FAILED)>>
    ELSE IF ~w.product THEN <<FALSE, Some(PRODUCT_FAILED)>>
    ELSE IF ~w.cod THEN <<FALSE, Some(COD_FAILED)>>
    ELSE <<TRUE, None>>

\* str.strip() of a character sequence
RECURSIVE strip(_)
strip(text) ==
    IF text = << >> THEN text
    ELSE IF Head(text) \in {" ", "\n"} THEN strip(Tail(text))
    ELSE IF text[Len(text)] \in {" ", "\n"} THEN strip(SubSeq(text, 1, Len(text) - 1))
    ELSE text

PASSWORD_B64 == <<"c", "G", "F", "z", "c", "w", "=", "=">>

\* base64.b64decode(...).decode("utf-8") on the encodings the model uses
b64decode(encoded) ==
    IF encoded = PASSWORD_B64 THEN Ok("pass") ELSE Raise("binascii.Error", << >>)

\* What kubectl get secret reports: its exit status and standard output.
SecretResults ==
    [returncode : {0, 1},
     out : {<< >>, PASSWORD_B64 \o <<"\n">>, <<"%", "%", "%">>}]

WooCommerce_get_admin_password(namespace, release_name, proc) ==
    IF proc.returncode # 0 THEN None
    ELSE LET encoded_password == strip(proc.out) IN
         IF encoded_password = << >> THEN None
         ELSE LET decoded == b64decode(encoded_password) IN
              IF decoded.ok THEN Some(decoded.value) ELSE None

---------------------------------------------------------------------------
(* Command runner (helm.py) *)

HELM_STDERR ==
    <<"E", "r", "r", "o", "r", ":", " ", "t", "i", "m", "e", "d", " ", "o", "u", "t">>
HELM_STDOUT == <<"d", "e", "p", "l", "o", "y", "e", "d">>
NO_SUCH_FILE ==
    <<"N", "o", " ", "s", "u", "c", "h", " ", "f", "i", "l", "e", " ", "o", "r",
      " ", "d", "i", "r", "e", "c", "t", "o", "r", "y", ":", " ", "'", "h", "e",
      "l", "m", "'">>

\* What subprocess.run reports for the helm command: whether the executable
\* could be started, the exit status and the two captured streams.
HelmResults ==
    [spawned : {TRUE}, returncode : {0, 1, 2, -9}, stdout : {<< >>, HELM_STDOUT},
     stderr : {<< >>, HELM_STDERR}]
    \cup {[spawned |-> FALSE, returncode |-> 0, stdout |-> << >>, stderr |-> << >>]}

\* run_helm that takes only a positive exit status for a failure: a helm
\* killed by a signal (a negative returncode) passes for a success.
run_helm_positive_only(cmd, result) ==
    IF ~result.spawned THEN Raise("FileNotFoundError", NO_SUCH_FILE)
    ELSE IF result.returncode > 0 THEN Raise("RuntimeError", result.stderr)
    ELSE Ok(result.stdout)

run_helm(cmd, result) ==
    IF ~result.spawned THEN Raise("FileNotFoundError", NO_SUCH_FILE)
    ELSE IF result.returncode # 0 THEN Raise("RuntimeError", result.stderr)
    ELSE Ok(result.stdout)

---------------------------------------------------------------------------
(* Provisioner (provisioner.py) *)

CHART_PATH == "charts/store"
DEFAULT_VALUES_FILE == "charts/store/values.yaml"
DISK_FULL == <<"d", "i", "s", "k", " ", "f", "u", "l", "l">>

\* tmp_ok: whether the temporary file could be created and written.  The file
\* is named after the store it holds the values of.
generate_values(store_name, host, engine, tmp_ok) ==
    LET adapter == get_store_adapter(engine) IN
    IF ~adapter.ok THEN adapter
    ELSE LET values == get_default_values(adapter.value, store_name, host) IN
         IF ~values.ok THEN values
         ELSE IF ~tmp_ok THEN Raise("OSError", DISK_FULL)
         ELSE Ok("/tmp/" \o values.value.store.name \o ".yaml")

\* install_cmd with helm install in place of helm upgrade --install
install_cmd_plain_install(store_name, namespace, values_file) ==
    <<"helm", "install", store_name, CHART_PATH, "--namespace",
      namespace, "--create-namespace", "-f",
      IF TruthyStr(values_file) THEN values_file[1] ELSE DEFAULT_VALUES_FILE>>

install_cmd(store_name, namespace, values_file) ==
    <<"helm", "upgrade", "--install", store_name, CHART_PATH, "--namespace",
      namespace, "--create-namespace", "-f",
      IF TruthyStr(values_file) THEN values_file[1] ELSE DEFAULT_VALUES_FILE>>

install_store(store_name, namespace, values_file, result) ==
    run_helm(install_cmd(store_name, namespace, values_file), result)

configure_platform(namespace, release_name, engine, w) ==
    LET adapter == get_store_adapter(engine) IN
    IF ~adapter.ok THEN adapter
    ELSE IF adapter.value = "WooCommerceAdapter"
        THEN Ok(WooCommerce_configure_platform(namespace, release_name, w))
        ELSE Raise("NotImplementedError", MEDUSA_NOT_IMPLEMENTED)

---------------------------------------------------------------------------
(* Store status (status.py) *)

\* get_store_password over an adapter that does not catch the failure of
\* kubectl get secret: the CalledProcessError reaches the driver.
get_store_password_uncaught(namespace, store_name, engine, proc) ==
    LET adapter == get_store_adapter(engine) IN
    IF ~adapter.ok THEN adapter
    ELSE IF adapter.value # "WooCommerceAdapter"
        THEN Raise("NotImplementedError", MEDUSA_NOT_IMPLEMENTED)
    ELSE IF proc.returncode # 0 THEN Raise("CalledProcessError", << >>)
    ELSE Ok(WooCommerce_get_admin_password(namespace, store_name, proc))

get_store_password(namespace, store_name, engine, proc) ==
    LET adapter == get_store_adapter(engine) IN
    IF ~adapter.ok THEN adapter
    ELSE IF adapter.value = "WooCommerceAdapter"
        THEN Ok(WooCommerce_get_admin_password(namespace, store_name, proc))
        ELSE Raise("NotImplementedError", MEDUSA_NOT_IMPLEMENTED)

\* str.splitlines() of a character sequence
RECURSIVE splitlines(_)
splitlines(text) ==
    IF text = << >> THEN << >>
    ELSE LET nl == {k \in 1..Len(text) : text[k] = "\n"} IN
         IF nl = {} THEN <<text>>
         ELSE LET k == CHOOSE m \in nl : \A n \in nl : m <= n IN
              <<SubSeq(text, 1, k - 1)>> \o splitlines(SubSeq(text, k + 1, Len(text)))

\* Lines kubectl get pods --no-headers prints (name, ready, status).
PodLines ==
    {<<"w", "p", " ", "1", "/", "1", " ", "R", "u", "n", "n", "i", "n", "g", "\n">>,
     <<"d", "b", " ", "0", "/", "1", " ", "R", "u", "n", "n", "i", "n", "g", "\n">>,
     <<"d", "b", " ", "1", "/", "1", " ", "P", "e", "n", "d", "i", "n", "g", "\n">>,
     <<"w", "p", " ", "2", "/", "2", " ", "R", "u", "n", "n", "i", "n", "g", "\n">>,
     <<"w", "o", "o", "-", "r", "e", "a", "d", "y", " ", "0", "/", "1", " ", "C",
       "o", "m", "p", "l", "e", "t", "e", "d", "\n">>}

RECURSIVE PodListings(_)
PodListings(n) ==
    IF n = 0 THEN {<< >>}
    ELSE LET shorter == PodListings(n - 1) IN
         shorter \cup {l \o out : l \in PodLines, out \in shorter}

\* What kubectl get pods reports: its exit status and standard output.
PodResults ==
    [returncode : {0}, out : PodListings(MaxPodLines)]
    \cup {[returncode |-> 1, out |-> << >>]}

CALLED_PROCESS_ERROR == <<"e", "x", "i", "t", " ", "s", "t", "a", "t", "u", "s", " ", "1">>

\* namespace_ready that wants at least one pod line
namespace_ready_needs_pods(namespace, proc) ==
    IF proc.returncode # 0 THEN Raise("CalledProcessError", CALLED_PROCESS_ERROR)
    ELSE LET lines == splitlines(proc.out) IN
         Ok(/\ lines # << >>
            /\ \A i \in 1..Len(lines) :
                  Contains(WOO_READY, lines[i])
                  \/ ~(~Contains(RUNNING, lines[i]) \/ ~Contains(ONE_OF_ONE, lines[i])))

namespace_ready(namespace, proc) ==
    IF proc.returncode # 0 THEN Raise("CalledProcessError", CALLED_PROCESS_ERROR)
    ELSE LET lines == splitlines(proc.out) IN
         Ok(\A i \in 1..Len(lines) :
                Contains(WOO_READY, lines[i])
                \/ ~(~Contains(RUNNING, lines[i]) \/ ~Contains(ONE_OF_ONE, lines[i])))

---------------------------------------------------------------------------
(* Background tasks (main.py) *)

\* One step a task has made: the call, its arguments, how it ended, and the
\* diagnostic: the one configure_platform returned, the text of the exception
\* raised, or the error of the payload posted.
Event(op, args, res, err) == [op |-> op, args |-> args, res |-> res, err |-> err]

\* add_task replaced by awaiting the driver in the handler: the task is
\* already running when the handler returns.
add_task_awaited(req, rid) ==
    [req |-> req, rid |-> rid, pc |-> "generate_values", attempt |-> 0,
     values_file |-> None, exc |-> None, trace |-> << >>, sent |-> << >>,
     elapsed |-> 0]

\* background_tasks.add_task(_run_orchestration, req): the task of request rid
add_task(req, rid) ==
    [req |-> req, rid |-> rid, pc |-> "scheduled", attempt |-> 0,
     values_file |-> None, exc |-> None, trace |-> << >>, sent |-> << >>,
     elapsed |-> 0]

\* Where a task executes synchronous code: it holds the event loop until its
\* next await (the callback POST or the sleep) or its end.
OnLoop ==
    {"generate_values", "install_store", "namespace_ready", "configure_platform",
     "get_store_password"}

\* _token_ok that lets a request without a token header through
_token_ok_or_absent(incoming) == incoming = None \/ incoming = Some(ORCHESTRATOR_TOKEN)

_token_ok(incoming) == incoming = Some(ORCHESTRATOR_TOKEN)

\* callback_status reading the request from a variable shared by all tasks,
\* which holds the request accepted last.
callback_status_shared_request(job, payload) ==
    [job EXCEPT
        !.pc = "callback_status",
        !.sent = Append(@, [store_id |-> jobs[Len(jobs)].req.store_id,
                            token |-> ORCHESTRATOR_TOKEN,
                            json |-> exclude_none(payload)]),
        !.trace = Append(@, Event("callback_status", <<jobs[Len(jobs)].req.store_id>>,
                                  payload.status, payload.error))]

\* callback_status up to its await: the POST is issued
callback_status(job, payload) ==
    [job EXCEPT
        !.pc = "callback_status",
        !.sent = Append(@, [store_id |-> job.req.store_id,
                            token |-> ORCHESTRATOR_TOKEN,
                            json |-> exclude_none(payload)]),
        !.trace = Append(@, Event("callback_status", <<job.req.store_id>>,
                                  payload.status, payload.error))]

\* The exception leaves _run_orchestration: the task ends.
unhandled(job, e) == [job EXCEPT !.pc = "crashed", !.exc = Some(e.exc)]

\* for_loop as a loop that tests its bound after the body: the first
\* attempt is made whatever POLL_ATTEMPTS is.
for_loop_body_first(job) ==
    IF job.attempt = 0 \/ job.attempt < POLL_ATTEMPTS
        THEN [job EXCEPT !.pc = "namespace_ready"]
        ELSE callback_status(job, StatusPayload("FAILED", None, Some(TIMED_OUT), None))

\* for_loop with one iteration too many: range(POLL_ATTEMPTS + 1)
for_loop_one_more(job) ==
    IF job.attempt <= POLL_ATTEMPTS
        THEN [job EXCEPT !.pc = "namespace_ready"]
        ELSE callback_status(job, StatusPayload("FAILED", None, Some(TIMED_OUT), None))

\* for _ in range(POLL_ATTEMPTS): the next iteration, or the code after the loop
for_loop(job) ==
    IF job.attempt < POLL_ATTEMPTS
        THEN [job EXCEPT !.pc = "namespace_ready"]
        ELSE callback_status(job, StatusPayload("FAILED", None, Some(TIMED_OUT), None))

\* hard_failure that takes a failure without diagnostic for fatal as well:
\* if not cfg_error or "not installed" not in cfg_error
hard_failure_on_silence(cfg_error) ==
    ~TruthyText(cfg_error) \/ ~Contains(NOT_INSTALLED, cfg_error[1])

\* hard_failure that holds of no diagnostic: every configure failure is
\* retried on the next attempt.
hard_failure_never(cfg_error) == FALSE

\* hard_failure without the substring test: every diagnostic is fatal
hard_failure_any(cfg_error) == TruthyText(cfg_error)

\* hard_failure with the substring test inverted
hard_failure_inverted(cfg_error) ==
    TruthyText(cfg_error) /\ Contains(NOT_INSTALLED, cfg_error[1])

\* if cfg_error and "not installed" not in cfg_error
hard_failure(cfg_error) ==
    TruthyText(cfg_error) /\ ~Contains(NOT_INSTALLED, cfg_error[1])

\* The task j goes on as job; it keeps the event loop while it runs
\* synchronous code.
Step(j, job) ==
    /\ jobs' = [jobs EXCEPT ![j] = job]
    /\ running' = IF job.pc \in OnLoop THEN j ELSE 0
    /\ UNCHANGED <<MOCK_MODE, POLL_ATTEMPTS, log, call>>

---------------------------------------------------------------------------
(* Job Intake: POST /orchestrate *)

\* orchestrate that acknowledges a request whose store_id already has a
\* task without scheduling a second one
orchestrate_once_per_store(req, h1, h2) ==
    LET incoming_token == IF TruthyStr(h1) THEN h1 ELSE h2
        rid == Len(log) + 1
        valid == req.engine \in StoreEngine
        accepted == valid /\ _token_ok(incoming_token)
        known == \E j \in 1..Len(jobs) : jobs[j].req.store_id = req.store_id
    IN
    /\ running = 0
    /\ Len(log) < MaxRequests
    /\ accepted => Len(jobs) < MaxJobs
    /\ IF ~valid
         THEN /\ log' = Append(log, [req |-> req, token |-> incoming_token,
                                     status_code |-> 422,
                                     body |-> [detail |-> "validation error"]])
              /\ jobs' = jobs
         ELSE IF ~_token_ok(incoming_token)
         THEN /\ log' = Append(log, [req |-> req, token |-> incoming_token,
                                     status_code |-> 401,
                                     body |-> [detail |-> "Invalid orchestrator token"]])
              /\ jobs' = jobs
         ELSE /\ jobs' = IF known THEN jobs ELSE Append(jobs, add_task(req, rid))
              /\ log' = Append(log, [req |-> req, token |-> incoming_token,
                                     status_code |-> 200,
                                     body |-> [ok |-> TRUE, accepted |-> TRUE,
                                               store_id |-> req.store_id]])
    /\ UNCHANGED <<MOCK_MODE, POLL_ATTEMPTS, running, call>>

orchestrate(req, h1, h2) ==
    LET incoming_token == IF TruthyStr(h1) THEN h1 ELSE h2
        rid == Len(log) + 1
        valid == req.engine \in StoreEngine
        accepted == valid /\ _token_ok(incoming_token)
    IN
    /\ running = 0
    /\ Len(log) < MaxRequests
    /\ accepted => Len(jobs) < MaxJobs
    /\ IF ~valid
         THEN /\ log' = Append(log, [req |-> req, token |-> incoming_token,
                                     status_code |-> 422,
                                     body |-> [detail |-> "validation error"]])
              /\ jobs' = jobs
         ELSE IF ~_token_ok(incoming_token)
         THEN /\ log' = Append(log, [req |-> req, token |-> incoming_token,
                                     status_code |-> 401,
                                     body |-> [detail |-> "Invalid orchestrator token"]])
              /\ jobs' = jobs
         ELSE /\ jobs' = Append(jobs, add_task(req, rid))
              /\ log' = Append(log, [req |-> req, token |-> incoming_token,
                                     status_code |-> 200,
                                     body |-> [ok |-> TRUE, accepted |-> TRUE,
                                               store_id |-> req.store_id]])
    /\ UNCHANGED <<MOCK_MODE, POLL_ATTEMPTS, running, call>>

---------------------------------------------------------------------------
(* Provisioning driver: _run_orchestration, one action per step *)

\* Driver_start without the MOCK_MODE branch
Driver_start_without_mock(j) ==
    LET job == jobs[j] IN
    /\ running = 0
    /\ job.pc = "scheduled"
    /\ Step(j, [job EXCEPT !.pc = "generate_values"])

\* The task starts: the mock path, or on to generate_values.
Driver_start(j) ==
    LET job == jobs[j] IN
    /\ running = 0
    /\ job.pc = "scheduled"
    /\ Step(j, IF MOCK_MODE
                 THEN callback_status(job,
                        StatusPayload("READY", Some(job.req.store_url), None,
                                      Some("mock-password")))
                 ELSE [job EXCEPT !.pc = "generate_values"])

Driver_generate_values(j) ==
    LET job == jobs[j] IN
    /\ running = j
    /\ job.pc = "generate_values"
    /\ \E tmp_ok \in BOOLEAN :
         LET values_file == generate_values(job.req.name, job.req.host, job.req.engine, tmp_ok)
             called == [job EXCEPT !.trace = Append(@,
                          Event("generate_values",
                                <<job.req.name, job.req.host, job.req.engine>>,
                                IF values_file.ok THEN "ok" ELSE "raise",
                                IF values_file.ok THEN None ELSE Some(values_file.text)))]
         IN Step(j, IF values_file.ok
                      THEN [called EXCEPT !.pc = "install_store",
                                          !.values_file = Some(values_file.value)]
                      ELSE unhandled(called, values_file))

Driver_install_store(j) ==
    LET job == jobs[j] IN
    /\ running = j
    /\ job.pc = "install_store"
    /\ \E result \in HelmResults :
         LET installed == install_store(job.req.name, job.req.namespace, job.values_file, result)
             called == [job EXCEPT !.trace = Append(@,
                          Event("install_store",
                                install_cmd(job.req.name, job.req.namespace, job.values_file),
                                IF installed.ok THEN "ok" ELSE "raise",
                                IF installed.ok THEN None ELSE Some(installed.text)))]
         IN Step(j, IF installed.ok
                      THEN for_loop(called)
                      ELSE callback_status(called,
                             StatusPayload("FAILED", None, Some(installed.text), None)))

\* Driver_namespace_ready that goes straight to the next attempt when the
\* namespace is not ready, without the wait.
Driver_namespace_ready_no_wait(j) ==
    LET job == jobs[j] IN
    /\ running = j
    /\ job.pc = "namespace_ready"
    /\ \E proc \in PodResults :
         LET ready == namespace_ready(job.req.namespace, proc)
             called == [job EXCEPT !.trace = Append(@,
                          Event("namespace_ready", <<job.req.namespace>>,
                                IF ~ready.ok THEN "raise"
                                ELSE IF ready.value THEN "True" ELSE "False", None))]
         IN Step(j, IF ~ready.ok THEN unhandled(called, ready)
                    ELSE IF ready.value THEN [called EXCEPT !.pc = "configure_platform"]
                    ELSE for_loop([called EXCEPT !.attempt = @ + 1]))

\* Driver_namespace_ready without the if: configure_platform is called on
\* every attempt, whatever the prober returned.
Driver_namespace_ready_unchecked(j) ==
    LET job == jobs[j] IN
    /\ running = j
    /\ job.pc = "namespace_ready"
    /\ \E proc \in PodResults :
         LET ready == namespace_ready(job.req.namespace, proc)
             called == [job EXCEPT !.trace = Append(@,
                          Event("namespace_ready", <<job.req.namespace>>,
                                IF ~ready.ok THEN "raise"
                                ELSE IF ready.value THEN "True" ELSE "False", None))]
         IN Step(j, IF ~ready.ok THEN unhandled(called, ready)
                    ELSE [called EXCEPT !.pc = "configure_platform"])

\* if namespace_ready(req.namespace): the task after the call has returned
\* ready or raised
after_namespace_ready(job, ready) ==
    LET called == [job EXCEPT !.trace = Append(@,
                     Event("namespace_ready", <<job.req.namespace>>,
                           IF ~ready.ok THEN "raise"
                           ELSE IF ready.value THEN "True" ELSE "False", None))]
    IN IF ~ready.ok THEN unhandled(called, ready)
       ELSE IF ready.value THEN [called EXCEPT !.pc = "configure_platform"]
       ELSE [called EXCEPT !.pc = "sleep"]

Driver_namespace_ready(j) ==
    LET job == jobs[j] IN
    /\ running = j
    /\ job.pc = "namespace_ready"
    /\ \E proc \in PodResults :
         Step(j, after_namespace_ready(job, namespace_ready(job.req.namespace, proc)))

\* success, cfg_error = configure_platform(...) and the two ifs on them: the
\* task after the call has returned configured or raised
after_configure_platform(job, configured) ==
    LET success == configured.value[1]
        cfg_error == configured.value[2]
        called == [job EXCEPT !.trace = Append(@,
                     Event("configure_platform",
                           <<job.req.namespace, job.req.name, job.req.engine>>,
                           IF ~configured.ok THEN "raise"
                           ELSE IF success THEN "True" ELSE "False",
                           IF configured.ok THEN cfg_error ELSE None))]
    IN IF ~configured.ok THEN unhandled(called, configured)
       ELSE IF success THEN [called EXCEPT !.pc = "get_store_password"]
       ELSE IF hard_failure(cfg_error)
           THEN callback_status(called, StatusPayload("FAILED", None, cfg_error, None))
       ELSE [called EXCEPT !.pc = "sleep"]

Driver_configure_platform(j) ==
    LET job == jobs[j] IN
    /\ running = j
    /\ job.pc = "configure_platform"
    /\ \E w \in WooWorlds :
         Step(j, after_configure_platform(job,
                   configure_platform(job.req.namespace, job.req.name, job.req.engine, w)))

Driver_get_store_password(j) ==
    LET job == jobs[j] IN
    /\ running = j
    /\ job.pc = "get_store_password"
    /\ \E proc \in SecretResults :
         LET password == get_store_password(job.req.namespace, job.req.name, job.req.engine, proc)
             called == [job EXCEPT !.trace = Append(@,
                          Event("get_store_password",
                                <<job.req.namespace, job.req.name, job.req.engine>>,
                                IF ~password.ok THEN "raise"
                                ELSE IF password.value = None THEN "None"
                                ELSE "str", None))]
         IN Step(j, IF ~password.ok THEN unhandled(called, password)
                    ELSE callback_status(called,
                           StatusPayload("READY", Some(job.req.store_url), None,
                                         password.value)))

\* await asyncio.sleep(POLL_INTERVAL) returns: the attempt is over
after_sleep(job) ==
    for_loop([job EXCEPT
                !.attempt = @ + 1,
                !.elapsed = @ + POLL_INTERVAL,
                !.trace = Append(@, Event("sleep", << >>, "ok", None))])

Driver_sleep(j) ==
    LET job == jobs[j] IN
    /\ running = 0
    /\ job.pc = "sleep"
    /\ Step(j, after_sleep(job))

\* What the backend answers to the callback POST; 0 is a network error.
CallbackResponses == {200, 204, 400, 500, 0}

\* Driver_callback_return without the return after the FAILED callback of a
\* configure failure: the task falls through to the sleep.
Driver_callback_return_falls_through(j) ==
    LET job == jobs[j] IN
    /\ running = 0
    /\ job.pc = "callback_status"
    /\ \E status_code \in CallbackResponses :
         Step(j, IF status_code = 0 THEN unhandled(job, Raise("ConnectError", << >>))
                 ELSE IF status_code >= 400 THEN unhandled(job, Raise("RuntimeError", << >>))
                 ELSE IF Len(job.trace) > 1
                         /\ job.trace[Len(job.trace) - 1].op = "configure_platform"
                     THEN [job EXCEPT !.pc = "sleep"]
                 ELSE [job EXCEPT !.pc = "done"])

\* Driver_callback_return under a supervisor that runs the driver again from
\* its first step when the delivery of the callback failed.
Driver_callback_return_reruns(j) ==
    LET job == jobs[j] IN
    /\ running = 0
    /\ job.pc = "callback_status"
    /\ \E status_code \in CallbackResponses :
         Step(j, IF (status_code = 0 \/ status_code >= 400) /\ Len(job.trace) < 6
                     THEN [job EXCEPT !.pc = "scheduled"]
                 ELSE IF status_code = 0 THEN unhandled(job, Raise("ConnectError", << >>))
                 ELSE IF status_code >= 400 THEN unhandled(job, Raise("RuntimeError", << >>))
                 ELSE [job EXCEPT !.pc = "done"])

\* Driver_callback_return with a notifier that posts the payload again when
\* the delivery failed.
Driver_callback_return_retries(j) ==
    LET job == jobs[j] IN
    /\ running = 0
    /\ job.pc = "callback_status"
    /\ \E status_code \in CallbackResponses :
         Step(j, IF (status_code = 0 \/ status_code >= 400) /\ Len(job.sent) < 2
                     THEN [job EXCEPT !.sent = Append(@, job.sent[Len(job.sent)])]
                 ELSE IF status_code = 0 THEN unhandled(job, Raise("ConnectError", << >>))
                 ELSE IF status_code >= 400 THEN unhandled(job, Raise("RuntimeError", << >>))
                 ELSE [job EXCEPT !.pc = "done"])

\* await client.post(...) returns or raises: the end of callback_status and of
\* the task, as every callback is followed by a return.
Driver_callback_return(j) ==
    LET job == jobs[j] IN
    /\ running = 0
    /\ job.pc = "callback_status"
    /\ \E status_code \in CallbackResponses :
         Step(j, IF status_code = 0 THEN unhandled(job, Raise("ConnectError", << >>))
                 ELSE IF status_code >= 400 THEN unhandled(job, Raise("RuntimeError", << >>))
                 ELSE [job EXCEPT !.pc = "done"])

---------------------------------------------------------------------------
(* The service *)

Init ==
    /\ MOCK_MODE \in BOOLEAN
    /\ POLL_ATTEMPTS \in (-1)..MaxPollAttempts
    /\ jobs = << >>
    /\ log = << >>
    /\ running = 0
    /\ call = None

Next ==
    \/ \E req \in Requests, h1 \in HeaderValues, h2 \in HeaderValues : orchestrate(req, h1, h2)
    \/ \E j \in 1..Len(jobs) : Driver_start(j)
    \/ \E j \in 1..Len(jobs) : Driver_generate_values(j)
    \/ \E j \in 1..Len(jobs) : Driver_install_store(j)
    \/ \E j \in 1..Len(jobs) : Driver_namespace_ready(j)
    \/ \E j \in 1..Len(jobs) : Driver_configure_platform(j)
    \/ \E j \in 1..Len(jobs) : Driver_get_store_password(j)
    \/ \E j \in 1..Len(jobs) : Driver_sleep(j)
    \/ \E j \in 1..Len(jobs) : Driver_callback_return(j)

Spec == Init /\ [][Next]_vars

---------------------------------------------------------------------------
(* The library functions on their own: each action makes one call with      *)
(* arguments and external results drawn from the sets of the model and      *)
(* keeps the call and what it returned.  A behaviour examines one call;     *)
(* install_store may be called a second time in succession.                 *)

\* Engine names a caller may pass: generate_values takes any str.
EngineNames == {r.engine : r \in Requests}

Call_generate_values(store_name, engine, tmp_ok) ==
    /\ call = None
    /\ call' = Some([fn |-> "generate_values",
                     store_name |-> store_name, engine |-> engine, tmp_ok |-> tmp_ok,
                     result |-> generate_values(store_name, store_name \o ".localhost",
                                                engine, tmp_ok)])
    /\ UNCHANGED <<MOCK_MODE, POLL_ATTEMPTS, jobs, log, running>>

Call_namespace_ready(namespace, proc) ==
    /\ call = None
    /\ call' = Some([fn |-> "namespace_ready", namespace |-> namespace, proc |-> proc,
                     result |-> namespace_ready(namespace, proc)])
    /\ UNCHANGED <<MOCK_MODE, POLL_ATTEMPTS, jobs, log, running>>

REUSE_NAME ==
    <<"c", "a", "n", "n", "o", "t", " ", "r", "e", "-", "u", "s", "e", " ", "a",
      " ", "n", "a", "m", "e">>
NO_DEPLOYED_RELEASES ==
    <<"h", "a", "s", " ", "n", "o", " ", "d", "e", "p", "l", "o", "y", "e", "d",
      " ", "r", "e", "l", "e", "a", "s", "e", "s">>

\* What the helm executable reports for cmd: ambient is what it reports
\* when the release poses no problem (success, or a failure of the chart or
\* the cluster); deployed says whether the release of cmd exists already.
\* install refuses an existing release, upgrade without --install a missing
\* one, upgrade --install takes both.
helm(cmd, deployed, ambient) ==
    IF ~ambient.spawned THEN ambient
    ELSE IF cmd[2] = "install" /\ deployed
        THEN [ambient EXCEPT !.returncode = 1, !.stderr = REUSE_NAME]
    ELSE IF cmd[2] = "upgrade" /\ cmd[3] # "--install" /\ ~deployed
        THEN [ambient EXCEPT !.returncode = 1, !.stderr = NO_DEPLOYED_RELEASES]
    ELSE ambient

\* The values files a caller passes to install_store
ValuesFiles == {None} \cup {Some("/tmp/" \o r.name \o ".yaml") : r \in Requests}

\* install_store called on its own; the release is deployed already when the
\* call before was install_store for the same release and succeeded.
Call_install_store(store_name, namespace, values_file, ambient) ==
    LET cmd == install_cmd(store_name, namespace, values_file)
        deployed == /\ call # None
                    /\ call[1].fn = "install_store"
                    /\ call[1].cmd = cmd
                    /\ call[1].result.ok
        proc == helm(cmd, deployed, ambient)
    IN
    /\ IF call = None THEN TRUE
       ELSE call[1].fn = "install_store" /\ ~call[1].deployed
    /\ call' = Some([fn |-> "install_store", cmd |-> cmd, deployed |-> deployed,
                     ambient |-> ambient, proc |-> proc,
                     result |-> install_store(store_name, namespace, values_file, proc)])
    /\ UNCHANGED <<MOCK_MODE, POLL_ATTEMPTS, jobs, log, running>>

\* One iteration of the poll loop up to its sleep, on its own: the prober
\* call on the pod listing proc and, if it is made, the configure call in
\* the cluster w, for a task of request req that is about to poll.
Call_poll_attempt(req, proc, w) ==
    LET job == [add_task(req, 0) EXCEPT !.pc = "namespace_ready"]
        probed == after_namespace_ready(job, namespace_ready(req.namespace, proc))
        configured == after_configure_platform(probed,
                        configure_platform(req.namespace, req.name, req.engine, w))
    IN
    /\ call = None
    /\ call' = Some([fn |-> "poll_attempt", proc |-> proc, w |-> w,
                     job |-> IF probed.pc = "configure_platform"
                               THEN configured ELSE probed])
    /\ UNCHANGED <<MOCK_MODE, POLL_ATTEMPTS, jobs, log, running>>

Call_WooCommerce_configure_platform(namespace, release_name, w) ==
    /\ call = None
    /\ call' = Some([fn |-> "WooCommerce_configure_platform",
                     namespace |-> namespace, w |-> w,
                     calls |-> WooCommerce_configure_platform_calls(namespace, release_name, w),
                     result |-> WooCommerce_configure_platform(namespace, release_name, w)])
    /\ UNCHANGED <<MOCK_MODE, POLL_ATTEMPTS, jobs, log, running>>

\* What an adapter's configure_platform may return by its declared type,
\* tuple[bool, Optional[str]]
ConfigureReturns ==
    {<<success, cfg_error>> :
        success \in BOOLEAN,
        cfg_error \in {None, Some(<< >>), Some(CORE_NOT_INSTALLED), Some(POD_NOT_FOUND)}}

\* The driver's handling of what configure_platform returned, on its own,
\* for a task of request req in its first attempt, and the task after the
\* sleep if it goes to sleep.
Call_after_configure_platform(req, configured) ==
    LET job == after_configure_platform(
                   [add_task(req, 0) EXCEPT !.pc = "configure_platform"], Ok(configured))
    IN
    /\ call = None
    /\ call' = Some([fn |-> "after_configure_platform", configured |-> configured,
                     job |-> job,
                     next |-> IF job.pc = "sleep" THEN after_sleep(job) ELSE job])
    /\ UNCHANGED <<MOCK_MODE, POLL_ATTEMPTS, jobs, log, running>>

Call_run_helm(cmd, result) ==
    /\ call = None
    /\ call' = Some([fn |-> "run_helm", cmd |-> cmd, proc |-> result,
                     result |-> run_helm(cmd, result)])
    /\ UNCHANGED <<MOCK_MODE, POLL_ATTEMPTS, jobs, log, running>>

InitCalls ==
    /\ MOCK_MODE = FALSE
    /\ POLL_ATTEMPTS \in 1..MaxPollAttempts
    /\ jobs = << >>
    /\ log = << >>
    /\ running = 0
    /\ call = None

NextCalls ==
    \/ \E r \in Requests, engine \in EngineNames, tmp_ok \in BOOLEAN :
          Call_generate_values(r.name, engine, tmp_ok)
    \/ \E r \in Requests, proc \in PodResults : Call_namespace_ready(r.namespace, proc)
    \/ \E r \in Requests, result \in HelmResults :
          Call_run_helm(install_cmd(r.name, r.namespace, None), result)
    \/ \E r \in {q \in Requests : q.engine \in StoreEngine},
          proc \in PodResults, w \in WooWorlds : Call_poll_attempt(r, proc, w)
    \/ \E r \in Requests, w \in WooWorlds :
          Call_WooCommerce_configure_platform(r.namespace, r.name, w)
    \/ \E r \in {q \in Requests : q.engine \in StoreEngine}, configured \in ConfigureReturns :
          Call_after_configure_platform(r, configured)
    \/ \E r \in Requests, values_file \in ValuesFiles, ambient \in HelmResults :
          Call_install_store(r.name, r.namespace, values_file, ambient)

SpecCalls == InitCalls /\ [][NextCalls]_vars

---------------------------------------------------------------------------
(* What a task has done *)

Tasks == 1..Len(jobs)

\* The number of times the task has made the call op
Count(job, op) == Cardinality({i \in 1..Len(job.trace) : job.trace[i].op = op})

\* The callbacks of the task that carry a terminal status
Terminal(job) ==
    {i \in 1..Len(job.sent) : job.sent[i].json.status \in {"READY", "FAILED"}}

\* The poll attempt (1, 2, ...) in which step i of the task falls
AttemptOf(job, i) ==
    1 + Cardinality({k \in 1..i : job.trace[k].op = "sleep"})

\* The task has ended or awaits the answer to its callback
Finished(job) == job.pc \in {"callback_status", "done", "crashed"}

---------------------------------------------------------------------------
(* Claims *)

\* C1: for every job run, mock or real, and whatever install, the prober,
\* configure, the credential fetch and the callback POST return, at most one
\* callback with status READY or FAILED is sent.
C1_AtMostOneTerminalCallback ==
    \A j \in Tasks : Cardinality(Terminal(jobs[j])) <= 1

\* A real job that went through configure has sent its one callback and ended.
C1_Witness ==
    \E j \in Tasks :
        /\ ~MOCK_MODE
        /\ jobs[j].pc = "done"
        /\ Count(jobs[j], "configure_platform") >= 1
        /\ Cardinality(Terminal(jobs[j])) = 1

\* C2: any failure of the ACCEPTED -> DEPLOYING step (no adapter, no default
\* configuration, the values file not written, the deployment tool exiting
\* nonzero) makes the driver send exactly one FAILED callback whose error is
\* the raw error text, with at most one install and no prober or configure call.
C2_DeployFailureSendsOneFailed ==
    \A j \in Tasks :
        LET job == jobs[j]
            failed == {i \in 1..Len(job.trace) :
                          /\ job.trace[i].op \in {"generate_values", "install_store"}
                          /\ job.trace[i].res = "raise"}
        IN failed # {} =>
              /\ Len(job.sent) = 1
              /\ \A i \in failed :
                    job.sent[1].json = [status |-> "FAILED", error |-> job.trace[i].err[1]]
              /\ Count(job, "install_store") <= 1
              /\ Count(job, "namespace_ready") = 0
              /\ Count(job, "configure_platform") = 0

\* C3: a prober invocation that errors on attempt k < N counts as not ready:
\* no callback for it, the wait, then attempt k+1; it never ends the job.
C3_ProberErrorIsNotReady ==
    \A j \in Tasks :
        LET job == jobs[j]
            n == Len(job.trace)
        IN \A i \in 1..n :
              (/\ job.trace[i].op = "namespace_ready"
               /\ job.trace[i].res = "raise"
               /\ AttemptOf(job, i) < POLL_ATTEMPTS) =>
                  /\ job.pc # "crashed"
                  /\ i = n => job.pc = "sleep" /\ job.sent = << >>
                  /\ i < n => job.trace[i + 1].op = "sleep"
                  /\ i + 1 < n => job.trace[i + 2].op = "namespace_ready"

\* A configure result the driver is to retry: a failure whose diagnostic says
\* the application is not installed yet.
NotReadyClass(e) ==
    /\ e.op = "configure_platform"
    /\ e.res = "False"
    /\ e.err # None
    /\ e.err[1] # << >>
    /\ Contains(NOT_INSTALLED, e.err[1])

\* A configure result that is a failure with any other diagnostic.
HardClass(e) ==
    /\ e.op = "configure_platform"
    /\ e.res = "False"
    /\ e.err # None
    /\ e.err[1] # << >>
    /\ ~Contains(NOT_INSTALLED, e.err[1])

\* C4: a configure failure classified "not ready" on attempt k < N sends no
\* callback; the attempt is consumed, the interval is waited, and attempt k+1
\* runs the prober and, if ready, configure again.
C4_NotReadyConfigureIsRetried ==
    \A j \in Tasks :
        LET job == jobs[j]
            n == Len(job.trace)
        IN \A i \in 1..n :
              (NotReadyClass(job.trace[i]) /\ AttemptOf(job, i) < POLL_ATTEMPTS) =>
                  /\ \A k \in 1..i : job.trace[k].op # "callback_status"
                  /\ i = n => job.pc = "sleep" /\ job.sent = << >>
                  /\ i < n => job.trace[i + 1].op = "sleep"
                  /\ i + 1 = n => job.pc = "namespace_ready" /\ job.attempt = AttemptOf(job, i)
                  /\ i + 1 < n => job.trace[i + 2].op = "namespace_ready"
                  /\ (i + 2 = n /\ job.trace[n].res = "True") => job.pc = "configure_platform"
                  /\ (i + 2 < n /\ job.trace[i + 2].res = "True") =>
                        job.trace[i + 3].op = "configure_platform"

\* Configure failed "not ready" on attempt 1 and the job ended READY later.
C4_Witness ==
    \E j \in Tasks :
        /\ \E i \in 1..Len(jobs[j].trace) :
              NotReadyClass(jobs[j].trace[i]) /\ AttemptOf(jobs[j], i) = 1
        /\ jobs[j].pc = "done"
        /\ Len(jobs[j].sent) = 1
        /\ jobs[j].sent[1].json.status = "READY"

\* C5: a configure failure with any other diagnostic, on any attempt, sends a
\* FAILED callback with exactly that diagnostic and stops: nothing follows it.
C5_HardConfigureFailureStops ==
    \A j \in Tasks :
        LET job == jobs[j]
            n == Len(job.trace)
        IN \A i \in 1..n :
              HardClass(job.trace[i]) =>
                  /\ n = i + 1
                  /\ job.trace[n].op = "callback_status"
                  /\ Len(job.sent) = 1
                  /\ job.sent[1].json = [status |-> "FAILED", error |-> job.trace[i].err[1]]
                  /\ job.sent[1].store_id = job.req.store_id
                  /\ Finished(job)
                  /\ Count(job, "sleep") = AttemptOf(job, i) - 1

\* Configure failed hard on the second attempt and the job has ended.
C5_Witness ==
    \E j \in Tasks :
        /\ \E i \in 1..Len(jobs[j].trace) :
              HardClass(jobs[j].trace[i]) /\ AttemptOf(jobs[j], i) = 2
        /\ jobs[j].pc = "done"

\* Install succeeded and every prober answer so far was "not ready".
NeverReady(job) ==
    /\ \E i \in 1..Len(job.trace) :
          job.trace[i].op = "install_store" /\ job.trace[i].res = "ok"
    /\ \A i \in 1..Len(job.trace) :
          job.trace[i].op = "namespace_ready" => job.trace[i].res = "False"

TimeoutCallback(job) ==
    [store_id |-> job.req.store_id, token |-> ORCHESTRATOR_TOKEN,
     json |-> [status |-> "FAILED", error |-> TIMED_OUT]]

\* C6: with N >= 0 attempts and interval t, no job makes more than N prober
\* calls, N configure calls or N waits, and a job whose install succeeds and
\* whose namespace is never ready sends nothing before the N waits have
\* elapsed and then exactly one FAILED callback "Platform configuration timed
\* out", after N prober calls and no configure call.
C6_NeverReadyTimesOut ==
    POLL_ATTEMPTS >= 0 =>
        \A j \in Tasks :
            LET job == jobs[j] IN
            /\ Count(job, "namespace_ready") <= POLL_ATTEMPTS
            /\ Count(job, "configure_platform") <= Count(job, "namespace_ready")
            /\ Count(job, "sleep") <= POLL_ATTEMPTS
            /\ job.elapsed = Count(job, "sleep") * POLL_INTERVAL
            /\ NeverReady(job) =>
                  /\ Count(job, "configure_platform") = 0
                  /\ ~Finished(job) =>
                        job.sent = << >> /\ job.elapsed < POLL_ATTEMPTS * POLL_INTERVAL
                  /\ Finished(job) =>
                        /\ job.sent = <<TimeoutCallback(job)>>
                        /\ job.elapsed = POLL_ATTEMPTS * POLL_INTERVAL
                        /\ Count(job, "sleep") = POLL_ATTEMPTS
                        /\ Count(job, "namespace_ready") = POLL_ATTEMPTS

\* A job polled the full budget of at least two attempts, never ready, and
\* ended with the timeout callback.
C6_Witness ==
    \E j \in Tasks :
        /\ POLL_ATTEMPTS >= 2
        /\ NeverReady(jobs[j])
        /\ jobs[j].pc = "done"
        /\ Count(jobs[j], "namespace_ready") = POLL_ATTEMPTS
        /\ jobs[j].sent = <<TimeoutCallback(jobs[j])>>

\* The request of exchange k carried no token or another token than the secret.
BadToken(k) == log[k].token # Some(ORCHESTRATOR_TOKEN)

C7_State ==
    \A k \in 1..Len(log) :
        BadToken(k) =>
            /\ log[k].status_code # 200
            /\ log[k].req.engine \in StoreEngine => log[k].status_code = 401
            /\ "accepted" \notin DOMAIN log[k].body
            /\ \A j \in Tasks : jobs[j].rid # k

C7_Step ==
    (Len(log') = Len(log) + 1 /\ log'[Len(log')].token # Some(ORCHESTRATOR_TOKEN)) =>
        UNCHANGED <<jobs, running>>

GoodRequest(k) ==
    log[k].token = Some(ORCHESTRATOR_TOKEN) /\ log[k].req.engine \in StoreEngine

C8_State ==
    \A k \in 1..Len(log) :
        GoodRequest(k) =>
            /\ log[k].status_code = 200
            /\ log[k].body = [ok |-> TRUE, accepted |-> TRUE,
                              store_id |-> log[k].req.store_id]
            /\ Cardinality({j \in Tasks : jobs[j].rid = k}) = 1
            /\ \A j \in Tasks : jobs[j].rid = k => jobs[j].req = log[k].req

C8_Step ==
    (Len(log') = Len(log) + 1 /\ log'[Len(log')].status_code = 200) =>
        /\ Len(jobs') = Len(jobs) + 1
        /\ jobs'[Len(jobs')].rid = Len(log')
        /\ jobs'[Len(jobs')].pc = "scheduled"
        /\ jobs'[Len(jobs')].trace = << >>
        /\ jobs'[Len(jobs')].sent = << >>
        /\ \A j \in Tasks : jobs'[j] = jobs[j]

\* C8: a valid request with the matching token schedules exactly one driver
\* run for it and is answered {ok, accepted: true, store_id}; when the answer
\* is given the driver has made no step, and no outcome changes the answer.
C8_AcceptSchedulesOneRun == []C8_State /\ [][C8_Step]_vars

\* Two requests were accepted; one job ended READY and the task of the other
\* ended with an exception.
C8_Witness ==
    /\ Len(log) = 2
    /\ GoodRequest(1)
    /\ GoodRequest(2)
    /\ \E j1 \in Tasks, j2 \in Tasks :
          /\ jobs[j1].pc = "done"
          /\ Len(jobs[j1].sent) = 1
          /\ jobs[j1].sent[1].json.status = "READY"
          /\ jobs[j2].pc = "crashed"

\* The task is inside an external command or a network call.
InExternalCall(job) ==
    job.pc \in {"install_store", "namespace_ready", "configure_platform",
                "get_store_password", "callback_status"}

\* C9: while an accepted job executes an external command or a network call,
\* Job Intake can still accept and acknowledge another request.
C9_IntakeNeverBlocked ==
    \A j \in Tasks :
        (InExternalCall(jobs[j]) /\ Len(log) < MaxRequests /\ Len(jobs) < MaxJobs) =>
            ENABLED orchestrate(OrchestrateRequest("s2", "b", "woocommerce"),
                                Some(ORCHESTRATOR_TOKEN), None)

MockCallback(job) ==
    [store_id |-> job.req.store_id, token |-> ORCHESTRATOR_TOKEN,
     json |-> [status |-> "READY", url |-> job.req.store_url,
               password |-> "mock-password"]]

\* C10: in mock mode a job that has started has sent exactly one callback,
\* READY with the job's store_url and the placeholder credential, and has made
\* no adapter, install, prober, configure or credential call and no wait.
C10_MockModeReportsReady ==
    MOCK_MODE =>
        \A j \in Tasks :
            LET job == jobs[j] IN
            /\ job.pc = "scheduled" => job.sent = << >> /\ job.trace = << >>
            /\ job.pc # "scheduled" =>
                  /\ job.sent = <<MockCallback(job)>>
                  /\ Len(job.trace) = 1
                  /\ job.trace[1].op = "callback_status"
                  /\ job.elapsed = 0
                  /\ job.values_file = None
                  /\ Finished(job)

\* In mock mode a job has ended after its one READY callback.
C10_Witness ==
    /\ MOCK_MODE
    /\ \E j \in Tasks : jobs[j].pc = "done" /\ jobs[j].sent = <<MockCallback(jobs[j])>>

\* C11: when configure succeeds, the driver sends READY with the job's
\* store_url whether the credential fetch returns a credential, returns none
\* or fails inside the adapter; the password field is present exactly when a
\* credential was retrieved, and a missing credential never makes the job
\* FAILED.
C11_ReadyWhateverTheCredential ==
    \A j \in Tasks :
        LET job == jobs[j]
            n == Len(job.trace)
        IN \A i \in 1..n :
              (job.trace[i].op = "configure_platform" /\ job.trace[i].res = "True") =>
                  /\ i = n => job.pc = "get_store_password" /\ job.sent = << >>
                  /\ i < n =>
                        /\ n = i + 2
                        /\ job.trace[i + 1].op = "get_store_password"
                        /\ job.trace[i + 1].res \in {"str", "None"}
                        /\ job.trace[n].op = "callback_status"
                        /\ Len(job.sent) = 1
                        /\ job.sent[1].json.status = "READY"
                        /\ job.sent[1].json.url = job.req.store_url
                        /\ "error" \notin DOMAIN job.sent[1].json
                        /\ "password" \in DOMAIN job.sent[1].json
                              <=> job.trace[i + 1].res = "str"

\* One job reported READY with the credential it retrieved, another reported
\* READY without a password after the credential fetch came back empty.
C11_Witness ==
    \E j \in Tasks, k \in Tasks :
        /\ Count(jobs[j], "configure_platform") >= 1
        /\ Count(jobs[k], "configure_platform") >= 1
        /\ jobs[j].sent # << >> /\ jobs[k].sent # << >>
        /\ jobs[j].sent[1].json =
              [status |-> "READY", url |-> jobs[j].req.store_url, password |-> "pass"]
        /\ jobs[k].sent[1].json = [status |-> "READY", url |-> jobs[k].req.store_url]

\* The delivery of the task's callback failed: the POST raised a network
\* error, or callback_status raised on a response status of 400 or more.
DeliveryFailed(job) ==
    /\ job.pc = "crashed"
    /\ job.trace # << >>
    /\ job.trace[Len(job.trace)].op = "callback_status"

C12_State ==
    \A j \in Tasks :
        DeliveryFailed(jobs[j]) =>
            /\ Len(jobs[j].sent) = 1
            /\ Count(jobs[j], "callback_status") = 1
            /\ jobs[j].exc \in {Some("ConnectError"), Some("RuntimeError")}

C12_Step ==
    \A j \in Tasks :
        /\ (jobs[j].pc = "callback_status" /\ jobs'[j] # jobs[j]) =>
              /\ jobs'[j].pc \in {"done", "crashed"}
              /\ jobs'[j].sent = jobs[j].sent
              /\ jobs'[j].trace = jobs[j].trace
        /\ DeliveryFailed(jobs[j]) => jobs'[j] = jobs[j]

\* C12: when the callback POST fails (a response status of 400 or more, or a
\* network error) the notifier makes no second delivery attempt and the job
\* sends no later callback, in the mock, install-failure, configure and
\* timeout paths alike: the one payload posted stays the only one.
C12_FailedDeliveryIsNotRetried == []C12_State /\ [][C12_Step]_vars

\* A READY callback after configure was answered with a status of 400 or
\* more, and the FAILED callback of another job hit a network error.
C12_Witness ==
    \E j \in Tasks, k \in Tasks :
        /\ DeliveryFailed(jobs[j]) /\ DeliveryFailed(jobs[k])
        /\ jobs[j].exc = Some("RuntimeError")
        /\ jobs[j].sent[1].json.status = "READY"
        /\ Count(jobs[j], "configure_platform") >= 1
        /\ jobs[k].exc = Some("ConnectError")
        /\ jobs[k].sent[1].json.status = "FAILED"

\* C13: every accepted job ends in READY or FAILED with exactly one terminal
\* callback sent; no accepted job ends without a callback and none is aborted.
\* Stated on finite runs: a task that has ended has sent exactly one
\* callback, with status READY or FAILED.
C13_EndedJobHasReported ==
    \A j \in Tasks :
        jobs[j].pc \in {"done", "crashed"} =>
            /\ Len(jobs[j].sent) = 1
            /\ Cardinality(Terminal(jobs[j])) = 1

\* The driver's DEPLOYING step failed before install: generate_values raised
\* at main.py:86, the task ended there and made no later call.
DeployAborted(job) ==
    /\ job.pc = "crashed"
    /\ Len(job.trace) = 1
    /\ Count(job, "install_store") = 0
    /\ Count(job, "namespace_ready") = 0
    /\ Count(job, "configure_platform") = 0

C15_UnboundEngineIsRejected ==
    /\ \A k \in 1..Len(log) :
          log[k].req.engine \notin DOMAIN adapters =>
              /\ log[k].status_code = 422
              /\ "accepted" \notin DOMAIN log[k].body
              /\ \A j \in Tasks : jobs[j].rid # k
    /\ \A j \in Tasks : jobs[j].req.engine \in DOMAIN adapters

\* A request for the engine "shopify" came with the valid token and was
\* answered 422; no task exists for it.
C15_Witness ==
    \E k \in 1..Len(log) :
        /\ log[k].req.engine = "shopify"
        /\ log[k].token = Some(ORCHESTRATOR_TOKEN)
        /\ log[k].status_code = 422
        /\ \A j \in Tasks : jobs[j].rid # k

\* Step i of the task is the call op and ended as res.
Did(job, i, op, res) ==
    /\ i \in 1..Len(job.trace)
    /\ job.trace[i].op = op
    /\ job.trace[i].res = res

\* C16: within one non-mock job the steps occur in a fixed order, one at a
\* time: values generation comes first and install right after it returned;
\* the first prober call comes only after install succeeded, a later one only
\* after a wait; configure is called on an attempt only after that attempt's
\* prober call returned ready; the credential fetch only after configure
\* reported success; and the callback is the job's last action.
C16_StepsInFixedOrder ==
    ~MOCK_MODE =>
    \A j \in Tasks :
        LET job == jobs[j]
            n == Len(job.trace)
        IN /\ n >= 1 => job.trace[1].op = "generate_values"
           /\ \A i \in 1..n :
                LET op == job.trace[i].op IN
                /\ op = "generate_values" => i = 1
                /\ op = "install_store" => i = 2 /\ Did(job, 1, "generate_values", "ok")
                /\ op = "namespace_ready" =>
                      /\ Did(job, 2, "install_store", "ok")
                      /\ i = 3 \/ Did(job, i - 1, "sleep", "ok")
                /\ op = "configure_platform" =>
                      /\ Did(job, i - 1, "namespace_ready", "True")
                      /\ AttemptOf(job, i - 1) = AttemptOf(job, i)
                /\ op = "get_store_password" => Did(job, i - 1, "configure_platform", "True")
                /\ op = "sleep" =>
                      \/ Did(job, i - 1, "namespace_ready", "False")
                      \/ Did(job, i - 1, "configure_platform", "False")
                /\ op = "callback_status" =>
                      /\ i = n
                      /\ i > 1
                      /\ job.pc \in {"callback_status", "done", "crashed"}
           /\ job.pc \in {"done", "callback_status"} =>
                 n >= 1 /\ job.trace[n].op = "callback_status"

\* A real job went through every step: values, install, a prober call that
\* found the namespace not ready, a wait, a prober call that found it ready,
\* configure, the credential fetch and the callback.
C16_Witness ==
    \E j \in Tasks :
        LET job == jobs[j] IN
        /\ ~MOCK_MODE
        /\ job.pc = "done"
        /\ Len(job.trace) = 8
        /\ Did(job, 3, "namespace_ready", "False")
        /\ Did(job, 4, "sleep", "ok")
        /\ Did(job, 5, "namespace_ready", "True")
        /\ Did(job, 6, "configure_platform", "True")
        /\ Did(job, 7, "get_store_password", "str")
        /\ Did(job, 8, "callback_status", "READY")

\* The steps of the task before step i that are the call op
Before(job, i, op) == {k \in 1..(i - 1) : job.trace[k].op = op}

\* The attempt budget the loop runs: range(N) is empty for N <= 0.
Budget == IF POLL_ATTEMPTS > 0 THEN POLL_ATTEMPTS ELSE 0

\* C17: for the configured attempt count N and every sequence of prober and
\* configure results, a job calls the prober at most N times and configure at
\* most N times, each at most once per attempt, and every attempt that does
\* not end the job is followed by exactly one wait before the next attempt.
C17_OneProbeOneConfigureOneWaitPerAttempt ==
    \A j \in Tasks :
        LET job == jobs[j]
            n == Len(job.trace)
        IN /\ Count(job, "namespace_ready") <= Budget
           /\ Count(job, "configure_platform") <= Budget
           /\ job.attempt = Count(job, "sleep")
           /\ \A i \in 1..n :
                /\ job.trace[i].op = "namespace_ready" =>
                      /\ Cardinality(Before(job, i, "sleep"))
                            = Cardinality(Before(job, i, "namespace_ready"))
                      /\ AttemptOf(job, i) <= Budget
                /\ job.trace[i].op = "configure_platform" =>
                      Cardinality(Before(job, i, "sleep"))
                        = Cardinality(Before(job, i, "configure_platform"))
                          + Cardinality({k \in Before(job, i, "namespace_ready") :
                                           /\ job.trace[k].res = "False"})
                /\ (\/ Did(job, i, "namespace_ready", "False")
                    \/ Did(job, i, "configure_platform", "False")) =>
                      /\ i = n => job.pc = "sleep"
                      /\ i < n =>
                            \/ /\ job.trace[i + 1].op = "sleep"
                               /\ i + 1 = n => job.pc = "namespace_ready"
                               /\ i + 1 < n =>
                                     job.trace[i + 2].op \in {"namespace_ready", "callback_status"}
                            \/ /\ job.trace[i].op = "configure_platform"
                               /\ job.trace[i + 1].op = "callback_status"
                               /\ i + 1 = n

\* With a budget of two attempts a job probed and configured once per
\* attempt, waited after each, and then reported the timeout.
C17_Witness ==
    \E j \in Tasks :
        LET job == jobs[j] IN
        /\ POLL_ATTEMPTS = 2
        /\ Count(job, "namespace_ready") = 2
        /\ Count(job, "configure_platform") = 2
        /\ Count(job, "sleep") = 2
        /\ Did(job, 4, "configure_platform", "False")
        /\ Did(job, 5, "sleep", "ok")
        /\ Did(job, 8, "sleep", "ok")
        /\ Did(job, 9, "callback_status", "FAILED")

\* C18: every callback posted has status READY or FAILED, never
\* PROVISIONING; a READY body carries url and no error; a FAILED body carries
\* an error and neither url nor password; the fields that are null are left
\* out of the body.
C18_CallbackBodyShape ==
    \A j \in Tasks :
        \A i \in 1..Len(jobs[j].sent) :
            LET json == jobs[j].sent[i].json
                posted == jobs[j].trace[Len(jobs[j].trace)]
            IN /\ json.status \in {"READY", "FAILED"}
               /\ json.status = "READY" =>
                     /\ DOMAIN json \in {{"status", "url"}, {"status", "url", "password"}}
                     /\ json.url = jobs[j].req.store_url
                     /\ posted.err = None
               /\ json.status = "FAILED" =>
                     /\ DOMAIN json = {"status", "error"}
                     /\ posted.err = Some(json.error)
               /\ posted.op = "callback_status"
               /\ posted.res = json.status

\* One job posted READY with url and password, another posted FAILED with
\* the timeout error only.
C18_Witness ==
    \E j \in Tasks, k \in Tasks :
        /\ jobs[j].sent # << >> /\ jobs[k].sent # << >>
        /\ DOMAIN jobs[j].sent[1].json = {"status", "url", "password"}
        /\ jobs[j].sent[1].json.status = "READY"
        /\ jobs[k].sent[1].json = [status |-> "FAILED", error |-> TIMED_OUT]

\* Every call the task has made carries the task's own name, namespace,
\* values file and store_id.
OwnArguments(job) ==
    /\ \A i \in 1..Len(job.trace) :
          LET e == job.trace[i] IN
          /\ e.op = "generate_values" => e.args = <<job.req.name, job.req.host, job.req.engine>>
          /\ e.op = "install_store" =>
                /\ job.values_file = Some("/tmp/" \o job.req.name \o ".yaml")
                /\ e.args = install_cmd(job.req.name, job.req.namespace, job.values_file)
          /\ e.op = "namespace_ready" => e.args = <<job.req.namespace>>
          /\ e.op \in {"configure_platform", "get_store_password"} =>
                e.args = <<job.req.namespace, job.req.name, job.req.engine>>
          /\ e.op = "callback_status" => e.args = <<job.req.store_id>>
    /\ \A i \in 1..Len(job.sent) : job.sent[i].store_id = job.req.store_id

\* The callback of the task is the one its own results call for.
OwnOutcome(job) ==
    \A i \in 1..Len(job.sent) :
        LET json == job.sent[i].json
            n == Len(job.trace)
        IN /\ json.status = "READY" =>
                 /\ json.url = job.req.store_url
                 /\ MOCK_MODE \/ Did(job, n - 2, "configure_platform", "True")
           /\ json.status = "FAILED" =>
                 \/ /\ Did(job, n - 1, "install_store", "raise")
                    /\ job.trace[n - 1].err = Some(json.error)
                 \/ /\ Did(job, n - 1, "configure_platform", "False")
                    /\ job.trace[n - 1].err = Some(json.error)
                 \/ /\ json.error = TIMED_OUT
                    /\ Count(job, "sleep") = Budget
                    /\ \A k \in 1..n : job.trace[k].op = "configure_platform" =>
                                           NotReadyClass(job.trace[k])

C19_State == \A j \in Tasks : OwnArguments(jobs[j]) /\ OwnOutcome(jobs[j])

C19_Step ==
    \A j \in Tasks, k \in Tasks :
        (j # k /\ jobs'[j] # jobs[j]) => jobs'[k] = jobs[k]

\* C19: with two jobs running concurrently no job reads or writes the state
\* of the other: every install, prober, configure, credential and callback
\* invocation carries the job's own name, namespace and store_id, a step of
\* one job leaves the other as it was, and the callback of each job follows
\* from the results of its own calls, under every interleaving.
C19_JobsAreIsolated == []C19_State /\ [][C19_Step]_vars

\* Two jobs with distinct namespaces ran interleaved: the one accepted later
\* has reported READY while the one accepted first, whose namespace was not
\* ready, is still waiting for its next attempt.
C19_Witness ==
    /\ Len(jobs) = 2
    /\ jobs[1].req.namespace # jobs[2].req.namespace
    /\ jobs[1].pc = "sleep"
    /\ Did(jobs[1], 3, "namespace_ready", "False")
    /\ jobs[2].pc = "done"
    /\ Len(jobs[2].sent) = 1
    /\ jobs[2].sent[1].store_id = jobs[2].req.store_id
    /\ jobs[2].sent[1].json.status = "READY"
    /\ ~MOCK_MODE

\* The pieces of text between the occurrences of the character sep
RECURSIVE Split(_, _)
Split(text, sep) ==
    LET at == {k \in 1..Len(text) : text[k] = sep} IN
    IF at = {} THEN <<text>>
    ELSE LET k == CHOOSE m \in at : \A n \in at : m <= n IN
         <<SubSeq(text, 1, k - 1)>> \o Split(SubSeq(text, k + 1, Len(text)), sep)

\* The pod line (name, ready/declared, status) shows a running pod with all
\* its declared containers ready.
ShowsFullyReady(line) ==
    LET column == Split(line, " ") IN
    /\ Len(column) >= 3
    /\ column[3] = RUNNING
    /\ LET count == Split(column[2], "/") IN
          Len(count) = 2 /\ count[1] = count[2]

\* C20: namespace_ready returns true exactly when every pod line other than
\* the sentinel lines shows a running pod whose ready count equals its
\* declared container count, whatever that count is; one other line that is
\* not running or not fully ready makes it false.
C20_ReadyIffEveryPodFullyReady ==
    \A c \in {call[i] : i \in 1..Len(call)} :
        (c.fn = "namespace_ready" /\ c.result.ok) =>
            LET lines == splitlines(c.proc.out) IN
            c.result.value =
                (\A i \in 1..Len(lines) :
                    Contains(WOO_READY, lines[i]) \/ ShowsFullyReady(lines[i]))

\* C21: the command runner reports success, with the captured standard
\* output, exactly when the exit status of the command is zero; for every
\* nonzero exit status it reports failure carrying the standard error text,
\* whatever the standard output contains.
C21_ExitStatusDecides ==
    \A c \in {call[i] : i \in 1..Len(call)} :
        (c.fn = "run_helm" /\ c.proc.spawned) =>
            /\ c.result.ok <=> c.proc.returncode = 0
            /\ c.proc.returncode = 0 => c.result = Ok(c.proc.stdout)
            /\ c.proc.returncode # 0 => c.result = Raise("RuntimeError", c.proc.stderr)

\* helm was killed by a signal after it had written to standard output and
\* nothing to standard error: run_helm raised, with the empty error text.
C21_Witness ==
    /\ call # None
    /\ call[1].fn = "run_helm"
    /\ call[1].proc.spawned
    /\ call[1].proc.returncode < 0
    /\ call[1].proc.stdout = HELM_STDOUT
    /\ call[1].proc.stderr = << >>
    /\ call[1].result = Raise("RuntimeError", << >>)

\* C22: invoking the install step twice in succession with the same release
\* name, namespace and values produces no additional error on the second
\* call: the command is an upsert, so helm reports for it what it reports
\* without the release, whether or not the release exists already, and the
\* second call succeeds whenever helm itself does.
C22_InstallIsUpsert ==
    \A c \in {call[i] : i \in 1..Len(call)} :
        c.fn = "install_store" =>
            /\ c.proc = c.ambient
            /\ (c.ambient.spawned /\ c.ambient.returncode = 0) => c.result = Ok(c.ambient.stdout)

\* install_store was called a second time in succession with the same
\* inputs, the release being deployed by the first call, and succeeded.
C22_Witness ==
    /\ call # None
    /\ call[1].fn = "install_store"
    /\ call[1].deployed
    /\ call[1].result.ok

\* The task has posted its READY or FAILED callback.
Reported(job) == Terminal(job) # {}

C23_State ==
    \A j \in Tasks :
        Reported(jobs[j]) =>
            /\ jobs[j].pc \in {"callback_status", "done", "crashed"}
            /\ jobs[j].trace[Len(jobs[j].trace)].op = "callback_status"
            /\ jobs[j].trace[Len(jobs[j].trace)].res = jobs[j].sent[1].json.status

C23_Step ==
    \A j \in Tasks :
        /\ Reported(jobs[j]) =>
              /\ jobs'[j].trace = jobs[j].trace
              /\ jobs'[j].sent = jobs[j].sent
              /\ jobs'[j].attempt = jobs[j].attempt
              /\ jobs'[j].elapsed = jobs[j].elapsed
              /\ jobs'[j].pc \in {jobs[j].pc, "done", "crashed"}
        /\ jobs[j].pc \in {"done", "crashed"} => jobs'[j] = jobs[j]

\* C23: READY and FAILED are absorbing for a job: once it has sent its
\* terminal callback it makes no further install, prober, configure,
\* credential-fetch, wait or callback step, the status it reported stays the
\* one reported, and a task that has ended never moves again.
C23_TerminalIsAbsorbing == []C23_State /\ [][C23_Step]_vars

\* One job has ended after reporting READY and another after reporting
\* FAILED.
C23_Witness ==
    \E j \in Tasks, k \in Tasks :
        /\ jobs[j].pc = "done" /\ jobs[k].pc = "done"
        /\ Reported(jobs[j]) /\ Reported(jobs[k])
        /\ jobs[j].sent[1].json.status = "READY"
        /\ jobs[k].sent[1].json.status = "FAILED"

\* C24: configure can be invoked more than once within one job; an
\* invocation is repeated only on a later poll attempt and only after every
\* earlier invocation returned a failure classified not ready; after a
\* configure success or a hard configure failure it is never invoked again.
C24_ConfigureRepeatsOnlyAfterNotReady ==
    \A j \in Tasks :
        LET job == jobs[j]
            n == Len(job.trace)
        IN \A i \in 1..n :
              job.trace[i].op = "configure_platform" =>
                  /\ \A k \in 1..(i - 1) :
                        job.trace[k].op = "configure_platform" =>
                            /\ NotReadyClass(job.trace[k])
                            /\ AttemptOf(job, k) < AttemptOf(job, i)
                  /\ (job.trace[i].res = "True" \/ HardClass(job.trace[i])) =>
                        \A k \in (i + 1)..n : job.trace[k].op # "configure_platform"
                  /\ (job.trace[i].res = "True" \/ HardClass(job.trace[i])) =>
                        job.pc # "configure_platform"

\* Configure was invoked twice in one job: on the first attempt it reported
\* that the core is not installed, on the second attempt it failed hard.
C24_Witness ==
    \E j \in Tasks :
        LET job == jobs[j] IN
        /\ Count(job, "configure_platform") = 2
        /\ Did(job, 4, "configure_platform", "False")
        /\ NotReadyClass(job.trace[4])
        /\ Did(job, 7, "configure_platform", "False")
        /\ HardClass(job.trace[7])
        /\ AttemptOf(job, 7) = 2

\* Every medusa request with the valid token was accepted and acknowledged.
MedusaAccepted ==
    \A k \in 1..Len(log) :
        (log[k].req.engine = "medusa" /\ log[k].token = Some(ORCHESTRATOR_TOKEN)) =>
            /\ log[k].status_code = 200
            /\ log[k].body = [ok |-> TRUE, accepted |-> TRUE, store_id |-> log[k].req.store_id]
            /\ \E j \in Tasks : jobs[j].rid = k

\* The run of the task stops in generate_values, before install, and posts
\* nothing.
AbortsUnreported(job) ==
    /\ job.sent = << >>
    /\ Count(job, "install_store") = 0
    /\ Count(job, "callback_status") = 0
    /\ \/ job.pc \in {"scheduled", "generate_values"} /\ job.trace = << >>
       \/ /\ job.pc = "crashed"
          /\ job.exc = Some("NotImplementedError")
          /\ Len(job.trace) = 1
          /\ Did(job, 1, "generate_values", "raise")

\* C25 as stated: a job with engine "medusa" is accepted and acknowledged,
\* but its driver run aborts while producing the default configuration,
\* before install, and sends no callback at all.
C25_MedusaNeverReports ==
    /\ MedusaAccepted
    /\ \A j \in Tasks : jobs[j].req.engine = "medusa" => AbortsUnreported(jobs[j])

\* C25, amended: with mock mode off, a job with engine "medusa" is accepted
\* and acknowledged, but its driver run aborts while producing the default
\* configuration, before install, and sends no callback at all.
C25_MedusaNeverReportsUnlessMock ==
    /\ MedusaAccepted
    /\ ~MOCK_MODE =>
          \A j \in Tasks : jobs[j].req.engine = "medusa" => AbortsUnreported(jobs[j])

\* With mock mode off a medusa job was acknowledged and its run has ended in
\* generate_values with nothing posted.
C25_Witness ==
    \E j \in Tasks :
        /\ ~MOCK_MODE
        /\ jobs[j].req.engine = "medusa"
        /\ log[jobs[j].rid].body.accepted
        /\ jobs[j].pc = "crashed"
        /\ jobs[j].trace[1].err = Some(MEDUSA_NOT_IMPLEMENTED)
        /\ jobs[j].sent = << >>

\* C26: when the pod listing of the namespace is empty, namespace_ready
\* returns true, so the driver invokes configure on that attempt; with the
\* WooCommerce adapter finding no pod, the job is reported FAILED with
\* "WordPress pod not found" on that attempt, without a wait.
C26_EmptyListingCountsAsReady ==
    \A c \in {call[i] : i \in 1..Len(call)} :
        (c.fn = "poll_attempt" /\ c.proc.returncode = 0 /\ c.proc.out = << >>) =>
            /\ Did(c.job, 1, "namespace_ready", "True")
            /\ Len(c.job.trace) >= 2
            /\ c.job.trace[2].op = "configure_platform"
            /\ (c.job.req.engine = "woocommerce" /\ c.w.pod = None) =>
                  /\ Did(c.job, 2, "configure_platform", "False")
                  /\ c.job.trace[2].err = Some(POD_NOT_FOUND)
                  /\ Did(c.job, 3, "callback_status", "FAILED")
                  /\ c.job.pc = "callback_status"
                  /\ c.job.sent = <<[store_id |-> c.job.req.store_id,
                                     token |-> ORCHESTRATOR_TOKEN,
                                     json |-> [status |-> "FAILED",
                                               error |-> POD_NOT_FOUND]]>>
                  /\ Count(c.job, "sleep") = 0

\* An attempt of a WooCommerce job saw an empty pod listing and no
\* WordPress pod, and ended with the FAILED callback.
C26_Witness ==
    /\ call # None
    /\ call[1].fn = "poll_attempt"
    /\ call[1].proc = [returncode |-> 0, out |-> << >>]
    /\ call[1].w.pod = None
    /\ call[1].job.req.engine = "woocommerce"
    /\ Len(call[1].job.sent) = 1
    /\ call[1].job.sent[1].json.error = POD_NOT_FOUND

\* The five steps of the WooCommerce configuration in their order, whether
\* step k succeeds in the cluster w, and the error reported for step k.
ConfigureOrder ==
    <<"_get_wordpress_pod", "_is_wordpress_ready", "_install_woocommerce",
      "_create_test_product", "_enable_cod_payment">>

StepSucceeds(w, k) ==
    CASE k = 1 -> w.pod # None
      [] k = 2 -> w.core
      [] k = 3 -> w.woo
      [] k = 4 -> w.product
      [] k = 5 -> w.cod

StepError ==
    <<POD_NOT_FOUND, CORE_NOT_INSTALLED, WOO_FAILED, PRODUCT_FAILED, COD_FAILED>>

\* C27: WooCommerce configure runs its steps in the order pod lookup,
\* core-installed check, plugin install/activate, test product, COD payment,
\* stops at the first step that fails without running the later ones, and
\* returns the error of that step; it returns (true, none) only when all
\* five succeed; of its five errors the driver takes only "WordPress core
\* not installed" for not ready (it waits and retries), the other four
\* being hard failures (it reports FAILED with the error).
C27_ConfigureStepsAndClasses ==
    \A c \in {call[i] : i \in 1..Len(call)} :
        /\ c.fn = "WooCommerce_configure_platform" =>
              LET failing == {k \in 1..5 : ~StepSucceeds(c.w, k)} IN
              /\ failing = {} => c.calls = ConfigureOrder /\ c.result = <<TRUE, None>>
              /\ failing # {} =>
                    LET first == CHOOSE k \in failing : \A m \in failing : k <= m IN
                    /\ c.calls = SubSeq(ConfigureOrder, 1, first)
                    /\ c.result = <<FALSE, Some(StepError[first])>>
        /\ (/\ c.fn = "poll_attempt"
            /\ c.job.req.engine = "woocommerce"
            /\ Did(c.job, 2, "configure_platform", "False")) =>
              /\ \E k \in 1..5 : c.job.trace[2].err = Some(StepError[k])
              /\ c.job.trace[2].err = Some(CORE_NOT_INSTALLED) =>
                    c.job.pc = "sleep" /\ c.job.sent = << >> /\ Len(c.job.trace) = 2
              /\ c.job.trace[2].err # Some(CORE_NOT_INSTALLED) =>
                    /\ c.job.pc = "callback_status"
                    /\ Len(c.job.sent) = 1
                    /\ c.job.sent[1].json =
                          [status |-> "FAILED", error |-> c.job.trace[2].err[1]]

\* Configure found the pod and the core, failed to install the plugin, and
\* ran neither of the two later steps.
C27_Witness ==
    /\ call # None
    /\ call[1].fn = "WooCommerce_configure_platform"
    /\ call[1].w.pod # None /\ call[1].w.core /\ ~call[1].w.woo
    /\ ~call[1].w.product /\ ~call[1].w.cod
    /\ Len(call[1].calls) = 3
    /\ call[1].result = <<FALSE, Some(WOO_FAILED)>>

\* C28: when configure returns failure with no diagnostic (the error is
\* null or empty) the driver treats the attempt as not ready: it sends no
\* callback, waits the interval and goes on with the next attempt, or, the
\* attempts being used up, reports the timeout.
C28_SilentFailureIsNotReady ==
    \A c \in {call[i] : i \in 1..Len(call)} :
        (/\ c.fn = "after_configure_platform"
         /\ ~c.configured[1]
         /\ c.configured[2] \in {None, Some(<< >>)}) =>
            /\ Did(c.job, 1, "configure_platform", "False")
            /\ c.job.pc = "sleep"
            /\ c.job.sent = << >>
            /\ Did(c.next, 2, "sleep", "ok")
            /\ c.next.elapsed = POLL_INTERVAL
            /\ c.next.attempt = 1
            /\ POLL_ATTEMPTS > 1 => c.next.pc = "namespace_ready" /\ c.next.sent = << >>
            /\ POLL_ATTEMPTS <= 1 => c.next.sent = <<TimeoutCallback(c.next)>>

\* Configure returned (False, None) on the first of two attempts: the task
\* slept and is about to call the prober again, with nothing sent.
C28_Witness ==
    /\ call # None
    /\ call[1].fn = "after_configure_platform"
    /\ call[1].configured = <<FALSE, None>>
    /\ POLL_ATTEMPTS = 2
    /\ call[1].next.pc = "namespace_ready"
    /\ call[1].next.sent = << >>

\* C29: when the configured poll attempt count is zero or negative, a job
\* whose install succeeds invokes the prober and configure zero times, waits
\* zero times and sends the timeout FAILED callback immediately after
\* install; READY is unreachable for any such job.
C29_NoAttemptsTimesOutAtOnce ==
    POLL_ATTEMPTS <= 0 =>
        \A j \in Tasks :
            LET job == jobs[j] IN
            /\ Count(job, "namespace_ready") = 0
            /\ Count(job, "configure_platform") = 0
            /\ Count(job, "get_store_password") = 0
            /\ Count(job, "sleep") = 0
            /\ job.elapsed = 0
            /\ job.pc \notin {"namespace_ready", "configure_platform",
                               "get_store_password", "sleep"}
            /\ Did(job, 2, "install_store", "ok") =>
                  /\ Len(job.trace) = 3
                  /\ Did(job, 3, "callback_status", "FAILED")
                  /\ job.sent = <<TimeoutCallback(job)>>
            /\ Count(job, "install_store") >= 1 =>
                  \A i \in 1..Len(job.sent) : job.sent[i].json.status # "READY"

\* With a negative attempt count a job installed, reported the timeout
\* without a prober call and ended.
C29_Witness ==
    \E j \in Tasks :
        /\ POLL_ATTEMPTS < 0
        /\ Did(jobs[j], 2, "install_store", "ok")
        /\ jobs[j].pc = "done"
        /\ jobs[j].sent = <<TimeoutCallback(jobs[j])>>
        /\ Count(jobs[j], "namespace_ready") = 0

\* Exchanges k and m are two accepted requests for the same store.
SameStoreTwice(k, m) ==
    /\ k < m
    /\ log[k].status_code = 200 /\ log[m].status_code = 200
    /\ log[k].req.store_id = log[m].req.store_id

C30_State ==
    \A k \in 1..Len(log), m \in 1..Len(log) :
        SameStoreTwice(k, m) =>
            \E j \in Tasks, i \in Tasks :
                /\ j # i
                /\ jobs[j].rid = k /\ jobs[i].rid = m
                /\ jobs[j].req = log[k].req /\ jobs[i].req = log[m].req
                /\ \A n \in 1..Len(jobs[j].sent) :
                      jobs[j].sent[n].store_id = log[k].req.store_id
                /\ \A n \in 1..Len(jobs[i].sent) :
                      jobs[i].sent[n].store_id = log[k].req.store_id

C30_Step ==
    \A j \in Tasks, i \in Tasks :
        (/\ j # i
         /\ jobs[j].req.store_id = jobs[i].req.store_id
         /\ jobs'[j] # jobs[j]) => jobs'[i] = jobs[i]

\* C30: Job Intake does not deduplicate by store_id: two accepted requests
\* with the same store_id each schedule a driver run of their own, each run
\* proceeds without regard to the other and posts its own callback for that
\* store_id, so that the backend can receive two terminal callbacks for it,
\* with different statuses.
C30_NoDeduplication == []C30_State /\ [][C30_Step]_vars

\* Two requests for store s1 were accepted; the run of the first ended
\* FAILED and the run of the second ended READY, each callback delivered.
C30_Witness ==
    /\ Len(log) = 2
    /\ SameStoreTwice(1, 2)
    /\ Len(jobs) = 2
    /\ jobs[1].req = jobs[2].req
    /\ jobs[1].pc = "done" /\ jobs[2].pc = "done"
    /\ jobs[1].sent # << >> /\ jobs[2].sent # << >>
    /\ jobs[1].sent[1].store_id = jobs[2].sent[1].store_id
    /\ jobs[1].sent[1].json.status = "FAILED"
    /\ jobs[2].sent[1].json.status = "READY"

====
